---- MODULE Spec2Model ----
(***************************************************************************)
(* The TestMesh Python plugin SDK (plugins/sdk/python/testmesh_plugin.py): *)
(* one TestMeshPlugin, its handler registry, the HTTPServer it starts and  *)
(* the PluginHandler that answers /health, /info, /execute and /shutdown.  *)
(* HTTPServer is the single-threaded socketserver: serve_forever takes one *)
(* connection at a time, the others wait in the listen backlog.            *)
(***************************************************************************)
EXTENDS Integers, Sequences, FiniteSets, TLC

\* ------------------------------------------------------------------ bounds
MaxPending == 1       \* connections waiting in the listen backlog
MaxTimers == 2        \* shutdown timers started and not yet fired
MaxTime == 1          \* the wall clock runs from 0 to MaxTime seconds

\* --------------------------------------------------------- value universes
ActionIds == {"a1", "a2"}
\* The registrations the plugin's author makes: a1 with f or with g (so a
\* second registration of a1 can replace its handler), a2 with g.
Registrations == {<<"a1", "f">>, <<"a1", "g">>, <<"a2", "g">>}
Levels == {"debug", "info", "warn", "error"}
Messages == {"m1", "m2"}
\* The logger calls a handler makes in one invocation: it makes the calls of
\* one of these lists, in order, and can return or raise after any of them.
Call(level, msg) == [level |-> level, message |-> msg]
LogScripts ==
    {<<Call("info", "m2"), Call("debug", "m1")>>,
     <<Call("warn", "m1"), Call("error", "m2")>>}
IsPrefix(s, t) == Len(s) <= Len(t) /\ s = SubSeq(t, 1, Len(s))
Methods == {"GET", "POST", "PUT"}
Paths == {"/health", "/info", "/execute", "/shutdown", "/other"}

\* Python values a JSON body's "action" member can decode to.
PyStr(s) == [t |-> "str", v |-> s]
PyNoneAction == [t |-> "NoneType", v |-> "None"]
PyListAction == [t |-> "list", v |-> "[]"]
ActionValues == {PyStr(a) : a \in ActionIds} \cup {PyNoneAction, PyListAction}

\* Bodies of POST /execute.  kind "notjson": json.loads raises (the empty
\* body included); "nonobject": valid JSON that is no object; "badcontext":
\* an object whose "context" member is no object; "object": well formed.
\* ctx: the "execution_id" member of the body's "context" object, Absent
\* when the body has no "context" or the context has no such member.
Absent == "<absent>"
ExecutionIds == {"e1"}
NoBody == [kind |-> "none", action |-> PyNoneAction, ctx |-> Absent]
ExecuteBodies ==
    {[kind |-> "notjson", action |-> PyNoneAction, ctx |-> Absent],
     [kind |-> "nonobject", action |-> PyNoneAction, ctx |-> Absent]}
    \cup {[kind |-> "badcontext", action |-> a, ctx |-> Absent] :
              a \in {PyStr("a1"), PyNoneAction}}
    \cup {[kind |-> "object", action |-> PyStr("a1"), ctx |-> c] :
              c \in ExecutionIds \cup {Absent}}
    \cup {[kind |-> "object", action |-> a, ctx |-> "e1"] :
              a \in {PyStr("a2"), PyListAction}}
    \cup {[kind |-> "object", action |-> PyNoneAction, ctx |-> Absent]}

\* Python values a handler can return: None, or a dict given as the sequence
\* of its items.  A key is a str or an int; a value is a JSON string "v" or
\* an object json.dumps cannot encode, "OBJ".
StrKey(s) == [t |-> "str", v |-> s]
IntKey(s) == [t |-> "int", v |-> s]
Item(k, x) == [key |-> k, val |-> x]
PyNone == [type |-> "NoneType", items |-> <<>>]
Dict(items) == [type |-> "dict", items |-> items]
EmptyDict == Dict(<<>>)
Results ==
    {PyNone, EmptyDict,
     Dict(<<Item(StrKey("k"), "v")>>),
     Dict(<<Item(IntKey("1"), "v")>>),
     Dict(<<Item(StrKey("k"), "OBJ")>>)}

\* Exceptions a handler can raise.  cls "Exception": an instance of
\* Exception; cls "BaseException": SystemExit, KeyboardInterrupt and the
\* like, which `except Exception` does not catch.  code "<absent>": the
\* exception has no attribute `code`.
NoCode == "<absent>"
Exc(cls, code, msg) == [cls |-> cls, code |-> code, msg |-> msg]
HandlerExcs ==
    {Exc("Exception", NoCode, "boom"),
     Exc("Exception", "BAD_INPUT", "missing field"),
     Exc("BaseException", NoCode, "exit")}
NoExc == Exc("none", NoCode, "")

VARIABLES
    phase,       \* "constructed" | "serving" | "crashed" | "exited"
    handlers,    \* plugin.handlers, a dict: sequence of <<id, func>> in insertion order
    registered,  \* the action ids plugin.action(...) was called with so far
    start_time,  \* plugin.start_time
    now,         \* time.time()
    timers,      \* threading.Timer objects started and not yet fired
    pending,     \* connections in the listen backlog
    pc,          \* the server thread: "idle" | "running" (inside handler(...))
                 \* | "hung" (inside a handler(...) that never returns)
                 \* | "shutdown" (in do_POST /shutdown, after its first step)
    req,         \* the request being handled, or the last one handled
    handler,     \* do_POST's local `handler`
    context,     \* do_POST's local `context`, "None" before line 123
    logger,      \* do_POST's local `logger`: its .logs
    t0,          \* do_POST's local `start_time`
    emitted,     \* the logger calls the running handler made, in order
    invoked,     \* the functions called for req, in order
    raised,      \* the exception the handler of req raised, or NoExc
    returned,    \* <<result>> when the handler of req returned, else <<>>
    escaped,     \* the exception that left do_GET/do_POST for req, or "none"
    trace,       \* the dispatch stages req went through
    wire,        \* what was written to req's connection, in order
    earlier_uptime  \* <<u>>, u the largest uptime_seconds a /health before
                    \* req returned; <<>> when there was none

vars == <<phase, handlers, registered, start_time, now, timers, pending, pc,
          req, handler, context, logger, t0, emitted, invoked, raised, returned,
          escaped, trace, wire, earlier_uptime>>

exchange == <<req, handler, context, logger, t0, emitted, invoked, raised, returned,
              escaped, trace, wire>>
history == <<earlier_uptime>>


\* ------------------------------------------------- plugin.handlers (a dict)
HasKey(h, k) == \E i \in 1..Len(h) : h[i][1] = k
Keys(h) == [i \in 1..Len(h) |-> h[i][1]]
GetItem(h, k) == h[CHOOSE i \in 1..Len(h) : h[i][1] = k][2]
\* A faulty registration that adds an entry even for a known key; C14 must
\* tell it from SetItem.
SetItemAlwaysAppends(h, k, f) == Append(h, <<k, f>>)
\* self.handlers[action_id] = func: a new key goes last, a known key keeps
\* its place and takes the new value.
SetItem(h, k, f) ==
    IF HasKey(h, k)
    THEN [i \in 1..Len(h) |-> IF h[i][1] = k THEN <<k, f>> ELSE h[i]]
    ELSE Append(h, <<k, f>>)

\* A faulty lookup that answers a known key with the handler registered
\* first, whatever its key; C19 must tell it from Lookup.
LookupFirstHandler(h, action) ==
    IF action.t = "list" THEN "TypeError"
    ELSE IF action.t = "str" /\ HasKey(h, action.v) THEN h[1][2]
    ELSE "None"
\* A faulty lookup that falls back to the first registered handler for a
\* key the dict does not hold; C6 must tell it from Lookup.
LookupFallsBack(h, action) ==
    IF action.t = "list" THEN "TypeError"
    ELSE IF action.t = "str" /\ HasKey(h, action.v) THEN GetItem(h, action.v)
    ELSE IF Len(h) > 0 THEN h[1][2]
    ELSE "None"
\* plugin.handlers.get(action): "TypeError" for an unhashable key, "None"
\* for a key the dict does not hold.
Lookup(h, action) ==
    IF action.t = "list" THEN "TypeError"
    ELSE IF action.t = "str" /\ HasKey(h, action.v) THEN GetItem(h, action.v)
    ELSE "None"

\* ------------------------------------------------------------ LogEntry, Logger
\* The timestamp is datetime.now() at creation; the model keeps it as one
\* opaque instant, and its isoformat() as one opaque string.
LogEntry(level, msg) == [level |-> level, message |-> msg, timestamp |-> "instant"]
to_dict(e) == [level |-> e.level, message |-> e.message, timestamp |-> "iso"]
debug(logs, msg) == Append(logs, LogEntry("debug", msg))
info(logs, msg) == Append(logs, LogEntry("info", msg))
warn(logs, msg) == Append(logs, LogEntry("warn", msg))
error(logs, msg) == Append(logs, LogEntry("error", msg))
\* logger.<method>(msg)
LoggerCall(logs, method, msg) ==
    CASE method = "debug" -> debug(logs, msg)
      [] method = "info" -> info(logs, msg)
      [] method = "warn" -> warn(logs, msg)
      [] method = "error" -> error(logs, msg)
\* A faulty serialisation that lists the newest record first; C7 must tell
\* it from LogDicts.
LogDictsNewestFirst(logs) ==
    [i \in 1..Len(logs) |-> to_dict(logs[Len(logs) + 1 - i])]
LogDicts(logs) == [i \in 1..Len(logs) |-> to_dict(logs[i])]

\* ------------------------------------------------------------------ json.dumps
\* json.dumps(value) raises TypeError when a value is no JSON value.
Encodable(value) == \A i \in 1..Len(value.items) : value.items[i].val # "OBJ"
\* What a client decodes from json.dumps(value): None is null, a dict an
\* object, and an int key comes back as the string of its digits.
Dumps(value) ==
    [type |-> value.type,
     items |-> [i \in 1..Len(value.items) |->
                  Item(StrKey(value.items[i].key.v), value.items[i].val)]]
JsonEncodable(data) ==
    IF "output" \in DOMAIN data THEN Encodable(data.output) ELSE TRUE
JsonDumps(data) ==
    IF "output" \in DOMAIN data THEN [data EXCEPT !.output = Dumps(@)] ELSE data

\* --------------------------------------------------------------------- the wire
StatusLine(status) == [k |-> "status", status |-> status]
JsonBody(data) == [k |-> "json", data |-> data]
HtmlBody == [k |-> "html"]

\* A faulty send_json that reports an action-level failure as status 500;
\* C8 must tell it from SendJson.
SendJsonFailureAs500(w, data, status) ==
    w \o <<StatusLine(IF "success" \in DOMAIN data /\ ~data.success
                       THEN 500 ELSE status)>>
      \o (IF JsonEncodable(data) THEN <<JsonBody(JsonDumps(data))>> ELSE <<>>)
\* send_json(data, status): the status line and the headers go out first,
\* json.dumps(data) is evaluated after end_headers().
SendJson(w, data, status) ==
    w \o <<StatusLine(status)>>
      \o (IF JsonEncodable(data) THEN <<JsonBody(JsonDumps(data))>> ELSE <<>>)
SendJsonRaises(data) == ~JsonEncodable(data)
TypeErrorExc == Exc("Exception", NoCode, "not JSON serializable")

\* ---------------------------------------------------------------- response data
Version == "1.0.0"
\* A faulty /health that reports the seconds left to MaxTime.
HealthDataCountdown(t, st) ==
    [status |-> "healthy", version |-> Version,
     uptime_seconds |-> MaxTime - (t - st)]
\* Lines 94-98: uptime_seconds is int(time.time() - plugin.start_time).
HealthData(t, st) ==
    [status |-> "healthy", version |-> Version, uptime_seconds |-> t - st]
InfoData(h) ==
    [id |-> "plugin", name |-> "plugin", version |-> Version, description |-> "",
     actions |-> [i \in 1..Len(h) |->
                    [id |-> Keys(h)[i], name |-> Keys(h)[i],
                     description |-> "Action: " \o Keys(h)[i]]]]
NotFoundData == [error |-> "Not found"]
ShutdownData == [status |-> "shutting_down"]
UnknownData(action) ==
    [success |-> FALSE,
     error |-> [code |-> "UNKNOWN_ACTION",
                message |-> "Unknown action: " \o action.v]]
\* A faulty `result or {}` that passes None on; C4 must tell it from OrEmpty.
OrEmptyKeepsNone(result) == result
\* result or {}
OrEmpty(result) ==
    IF result.type = "dict" /\ Len(result.items) > 0 THEN result ELSE EmptyDict
DurationMs(t, start) == (t - start) * 1000
SuccessData(result, logs, t, start) ==
    [success |-> TRUE,
     output |-> OrEmpty(result),
     logs |-> LogDicts(logs),
     metrics |-> [duration_ms |-> DurationMs(t, start)]]
\* getattr(e, "code", "EXECUTION_ERROR")
ErrorCode(e) == IF e.code = NoCode THEN "EXECUTION_ERROR" ELSE e.code
FailureData(e, logs, t, start) ==
    [success |-> FALSE,
     error |-> [code |-> ErrorCode(e), message |-> e.msg],
     logs |-> LogDicts(logs),
     metrics |-> [duration_ms |-> DurationMs(t, start)]]
\* except Exception as e
Catches(e) == e.cls = "Exception"


\* ------------------------------------------------------------------------ Init
NoReq == [method |-> "none", path |-> "none", body |-> NoBody]
Request(m, p, b) == [method |-> m, path |-> p, body |-> b]

\* TestMeshPlugin.__init__
Init ==
    /\ phase = "constructed"
    /\ handlers = <<>>
    /\ registered = {}
    /\ start_time = 0
    /\ now = 0
    /\ timers = 0
    /\ pending = 0
    /\ pc = "idle"
    /\ req = NoReq
    /\ handler = "None"
    /\ context = "None"
    /\ logger = <<>>
    /\ t0 = 0
    /\ emitted = <<>>
    /\ invoked = <<>>
    /\ raised = NoExc
    /\ returned = <<>>
    /\ escaped = "none"
    /\ trace = <<>>
    /\ wire = <<>>
    /\ earlier_uptime = <<>>

Alive == phase \in {"constructed", "serving"}

\* ------------------------------------------------------------- plugin, host, clock
\* plugin.action(action_id)(func): nothing in it looks at whether the
\* server is already serving.
Register(aid, f) ==
    /\ UNCHANGED history
    /\ Alive
    /\ handlers' = SetItem(handlers, aid, f)
    /\ registered' = registered \cup {aid}
    /\ UNCHANGED <<phase, start_time, now, timers, pending, pc>>
    /\ UNCHANGED exchange

\* plugin.port with PLUGIN_PORT unset: HTTPServer binds a free port.
Port == 0
\* plugin.start(): HTTPServer(...) is bound and serve_forever() entered.
\* Nothing in start() looks at whether it was called before: called again
\* after it ended with an exception, it binds a new server (with port 0 the
\* bind cannot collide with the socket of the first) and serves on it; the
\* connections left in the backlog of the first are not served.
Start ==
    /\ UNCHANGED history
    /\ \/ phase = "constructed"
       \/ phase = "crashed" /\ Port = 0
    /\ phase' = "serving"
    /\ pending' = 0
    /\ pc' = "idle"
    /\ req' = NoReq
    /\ handler' = "None"
    /\ context' = "None"
    /\ logger' = <<>>
    /\ t0' = 0
    /\ emitted' = <<>>
    /\ invoked' = <<>>
    /\ raised' = NoExc
    /\ returned' = <<>>
    /\ escaped' = "none"
    /\ trace' = <<>>
    /\ wire' = <<>>
    /\ UNCHANGED <<handlers, registered, start_time, now, timers>>

\* The host opens a connection and sends one request on it.
Connect ==
    /\ UNCHANGED history
    /\ phase = "serving"
    /\ pending < MaxPending
    /\ pending' = pending + 1
    /\ UNCHANGED <<phase, handlers, registered, start_time, now, timers, pc>>
    /\ UNCHANGED exchange

Tick ==
    /\ UNCHANGED history
    /\ Alive
    /\ now < MaxTime
    /\ now' = now + 1
    /\ UNCHANGED <<phase, handlers, registered, start_time, timers, pending, pc>>
    /\ UNCHANGED exchange

\* threading.Timer(0.1, lambda: os._exit(0)): the timer thread ends the
\* process, whatever the server thread is doing.  The timer threads are not
\* daemons: they also run after serve_forever() has ended with an exception.
TimerFire ==
    /\ UNCHANGED history
    /\ phase \in {"serving", "crashed"}
    /\ timers > 0
    /\ phase' = "exited"
    /\ timers' = timers - 1
    /\ UNCHANGED <<handlers, registered, start_time, now, pending, pc>>
    /\ UNCHANGED exchange

\* ----------------------------------------------------------------- the server
\* serve_forever() takes the next connection when the previous request is
\* done; the request read from it can be any request.
Accepts == phase = "serving" /\ pc = "idle" /\ pending > 0

\* serve_forever() takes the next connection: what the exchange before it
\* returned is now of an earlier request.
Max(a, b) == IF a >= b THEN a ELSE b
Accepted ==
    /\ earlier_uptime' =
         IF req.method = "GET" /\ req.path = "/health"
         THEN <<Max(wire[2].data.uptime_seconds,
                    IF earlier_uptime = <<>> THEN wire[2].data.uptime_seconds
                    ELSE earlier_uptime[1])>>
         ELSE earlier_uptime

\* An exchange that runs no handler and ends inside this step.
Answered(r, w, esc) ==
    /\ Accepted
    /\ pending' = pending - 1
    /\ req' = r
    /\ wire' = w
    /\ escaped' = esc
    /\ handler' = "None"
    /\ context' = "None"
    /\ logger' = <<>>
    /\ t0' = 0
    /\ emitted' = <<>>
    /\ invoked' = <<>>
    /\ raised' = NoExc
    /\ returned' = <<>>
    /\ pc' = "idle"

DoGET(path) ==
    /\ Accepts
    /\ Answered(Request("GET", path, NoBody),
                IF path = "/health"
                THEN SendJson(<<>>, HealthData(now, start_time), 200)
                ELSE IF path = "/info"
                THEN SendJson(<<>>, InfoData(handlers), 200)
                ELSE SendJson(<<>>, NotFoundData, 404),
                "none")
    /\ trace' = <<>>
    /\ UNCHANGED <<phase, handlers, registered, start_time, now, timers>>

\* do_POST, the /shutdown branch: line 169 answers, lines 171-172 start the
\* timer.  The timer thread of an earlier /shutdown can run between the two.
ShutdownStepsTimerFirst == <<"schedule", "respond">>
ShutdownSteps == <<"respond", "schedule">>
\* A faulty scheduling that cancels the timers already started and starts
\* one anew; C20 must tell it from TimersAfterSchedule.
TimersAfterRestart(n) == 1
\* threading.Timer(0.1, ...).start(): one more timer, the others untouched.
TimersAfterSchedule(n) == n + 1
ShutdownStep(kind, w, n) ==
    IF kind = "respond"
    THEN [wire |-> SendJson(w, ShutdownData, 200), timers |-> n]
    ELSE [wire |-> w, timers |-> TimersAfterSchedule(n)]

DoPOSTShutdown ==
    /\ Accepts
    /\ Accepted
    /\ timers < MaxTimers
    /\ pending' = pending - 1
    /\ req' = Request("POST", "/shutdown", NoBody)
    /\ wire' = ShutdownStep(ShutdownSteps[1], <<>>, timers).wire
    /\ timers' = ShutdownStep(ShutdownSteps[1], <<>>, timers).timers
    /\ pc' = "shutdown"
    /\ escaped' = "none"
    /\ handler' = "None"
    /\ context' = "None"
    /\ logger' = <<>>
    /\ t0' = 0
    /\ emitted' = <<>>
    /\ invoked' = <<>>
    /\ raised' = NoExc
    /\ returned' = <<>>
    /\ trace' = <<>>
    /\ UNCHANGED <<phase, handlers, registered, start_time, now>>

DoPOSTShutdownRest ==
    /\ UNCHANGED history
    /\ phase = "serving"
    /\ pc = "shutdown"
    /\ wire' = ShutdownStep(ShutdownSteps[2], wire, timers).wire
    /\ timers' = ShutdownStep(ShutdownSteps[2], wire, timers).timers
    /\ pc' = "idle"
    /\ UNCHANGED <<phase, handlers, registered, start_time, now, pending, req, handler,
                   context, logger, t0, emitted, invoked, raised, returned,
                   escaped, trace>>

DoPOSTNotFound(path) ==
    /\ Accepts
    /\ path \notin {"/execute", "/shutdown"}
    /\ Answered(Request("POST", path, NoBody),
                SendJson(<<>>, NotFoundData, 404), "none")
    /\ trace' = <<>>
    /\ UNCHANGED <<phase, handlers, registered, start_time, now, timers>>

\* PluginHandler defines do_GET and do_POST alone: for any other method
\* BaseHTTPRequestHandler answers 501 with its own HTML error page.
HasMethod(m) == m \in {"GET", "POST"}
UnsupportedMethod(m, path) ==
    /\ Accepts
    /\ ~HasMethod(m)
    /\ Answered(Request(m, path, NoBody), <<StatusLine(501), HtmlBody>>, "none")
    /\ trace' = <<>>
    /\ UNCHANGED <<phase, handlers, registered, start_time, now, timers>>


\* ---------------------------------------------------------------- POST /execute
\* Lines 117-129: json.loads(body), request.get(...), ctx_data.get(...).
\* The exception they raise, "none" when they raise nothing.
ParseError(body) ==
    CASE body.kind = "notjson" -> "JSONDecodeError"
      [] body.kind = "nonobject" -> "AttributeError"
      [] body.kind = "badcontext" -> "AttributeError"
      [] OTHER -> "none"
\* The stages passed when ParseError(body) is raised.
ParseTrace(body) ==
    IF body.kind = "badcontext" THEN <<"RECEIVED", "PARSED">> ELSE <<"RECEIVED">>

\* Lines 121-129: each PluginContext field is ctx_data.get(name, default);
\* execution_id stands for the five of them.
PluginContext(ctx) == [execution_id |-> IF ctx = Absent THEN "" ELSE ctx]
\* A faulty Logger() that hands out the log list of the request before.
NewLoggerShared(prev) == prev
\* Line 143, Logger(): a new object with self.logs = [], whatever logger
\* the request before had.
NewLogger(prev) == <<>>

\* do_POST from its first line to the call handler(config, context, logger).
\* No `try` encloses lines 115-143: what they raise leaves do_POST, and
\* socketserver drops the connection (handle_error) and serves on.
Execute(body) ==
    /\ Accepts
    /\ Accepted
    /\ pending' = pending - 1
    /\ req' = Request("POST", "/execute", body)
    /\ emitted' = <<>>
    /\ raised' = NoExc
    /\ returned' = <<>>
    /\ logger' = NewLogger(logger)
    /\ context' = IF ParseError(body) # "none" THEN "None"
                  ELSE PluginContext(body.ctx)
    /\ LET h == Lookup(handlers, body.action) IN
         IF ParseError(body) # "none"
         THEN /\ escaped' = ParseError(body)
              /\ trace' = ParseTrace(body)
              /\ wire' = <<>>
              /\ handler' = "None" /\ invoked' = <<>> /\ t0' = 0 /\ pc' = "idle"
         ELSE IF h = "TypeError"
         THEN /\ escaped' = "TypeError"
              /\ trace' = <<"RECEIVED", "PARSED">>
              /\ wire' = <<>>
              /\ handler' = "None" /\ invoked' = <<>> /\ t0' = 0 /\ pc' = "idle"
         ELSE IF h = "None"
         THEN /\ escaped' = "none"
              /\ trace' = <<"RECEIVED", "PARSED", "DISPATCHED",
                            "FAILED_UNKNOWN", "RESPONDED">>
              /\ wire' = SendJson(<<>>, UnknownData(body.action), 200)
              /\ handler' = "None" /\ invoked' = <<>> /\ t0' = 0 /\ pc' = "idle"
         ELSE /\ escaped' = "none"
              /\ trace' = <<"RECEIVED", "PARSED", "DISPATCHED">>
              /\ wire' = <<>>
              /\ handler' = h /\ invoked' = <<h>> /\ t0' = now /\ pc' = "running"
    /\ UNCHANGED <<phase, handlers, registered, start_time, now, timers>>

\* The running handler calls logger.debug/info/warn/error(msg).
HandlerLog(method, msg) ==
    /\ UNCHANGED history
    /\ phase = "serving"
    /\ pc = "running"
    /\ \E s \in LogScripts : IsPrefix(Append(emitted, Call(method, msg)), s)
    /\ logger' = LoggerCall(logger, method, msg)
    /\ emitted' = Append(emitted, Call(method, msg))
    /\ UNCHANGED <<phase, handlers, registered, start_time, now, timers, pending, pc, req, handler, context, t0, invoked, raised,
                   returned, escaped, trace, wire>>

\* The running handler blocks for good (a dead lock, an endless loop): line
\* 146 never returns, and nothing in do_POST or serve_forever() bounds it.
HandlerHang ==
    /\ UNCHANGED history
    /\ phase = "serving"
    /\ pc = "running"
    /\ pc' = "hung"
    /\ UNCHANGED <<phase, handlers, registered, start_time, now, timers, pending>>
    /\ UNCHANGED exchange

\* Lines 146-154, and 155-166 when send_json raises inside the `try`.
HandlerReturn(result) ==
    /\ UNCHANGED history
    /\ phase = "serving"
    /\ pc = "running"
    /\ returned' = <<result>>
    /\ LET data == SuccessData(result, logger, now, t0)
           sent == SendJson(wire, data, 200)
       IN IF SendJsonRaises(data) /\ Catches(TypeErrorExc)
          THEN /\ wire' = SendJson(sent, FailureData(TypeErrorExc, logger, now, t0), 200)
               /\ trace' = trace \o <<"SUCCEEDED", "FAILED_HANDLER", "RESPONDED">>
          ELSE /\ wire' = sent
               /\ trace' = trace \o <<"SUCCEEDED", "RESPONDED">>
    /\ pc' = "idle"
    /\ UNCHANGED <<phase, handlers, registered, start_time, now, timers, pending, req, handler, context, logger, t0, emitted, invoked,
                   raised, escaped>>

\* Line 146 raises e.  `except Exception` answers for an Exception; anything
\* else leaves do_POST and serve_forever(), and start() ends with it.
HandlerRaise(e) ==
    /\ UNCHANGED history
    /\ phase = "serving"
    /\ pc = "running"
    /\ raised' = e
    /\ IF Catches(e)
       THEN /\ wire' = SendJson(wire, FailureData(e, logger, now, t0), 200)
            /\ trace' = trace \o <<"FAILED_HANDLER", "RESPONDED">>
            /\ escaped' = "none"
            /\ phase' = phase
       ELSE /\ wire' = wire
            /\ trace' = trace \o <<"FAILED_HANDLER">>
            /\ escaped' = "BaseException"
            /\ phase' = "crashed"
    /\ pc' = "idle"
    /\ UNCHANGED <<handlers, registered, start_time, now, timers, pending, req, handler, context, logger, t0, emitted, invoked,
                   returned>>

Next ==
    \/ \E r \in Registrations : Register(r[1], r[2])
    \/ Start
    \/ Connect
    \/ Tick
    \/ TimerFire
    \/ \E path \in Paths : DoGET(path)
    \/ DoPOSTShutdown
    \/ DoPOSTShutdownRest
    \/ \E path \in Paths : DoPOSTNotFound(path)
    \/ \E m \in Methods, path \in Paths : UnsupportedMethod(m, path)
    \/ \E body \in ExecuteBodies : Execute(body)
    \/ \E method \in Levels, msg \in Messages : HandlerLog(method, msg)
    \/ HandlerHang
    \/ \E result \in Results : HandlerReturn(result)
    \/ \E e \in HandlerExcs : HandlerRaise(e)

Spec == Init /\ [][Next]_vars

\* A started timer thread is scheduled by the operating system whatever the
\* server thread does: once started it does fire.
FairSpec == Spec /\ WF_vars(TimerFire)


\* ====================================================================== claims
IsExecute == req.method = "POST" /\ req.path = "/execute"
\* The handling of req is over: do_GET/do_POST returned or raised.
Finished == req # NoReq /\ pc = "idle"
IsRoute(r) ==
    \/ r.method = "GET" /\ r.path \in {"/health", "/info"}
    \/ r.method = "POST" /\ r.path \in {"/execute", "/shutdown"}
Statuses(w) == {i \in 1..Len(w) : w[i].k = "status"}
Bodies(w) == {i \in 1..Len(w) : w[i].k # "status"}
JsonBodies(w) == {i \in 1..Len(w) : w[i].k = "json"}
\* One response: one status line, then one JSON body.
OneJsonResponse(w, status) ==
    Len(w) = 2 /\ w[1] = StatusLine(status) /\ w[2].k = "json"
DispatchPaths ==
    {<<"RECEIVED", "PARSED", "DISPATCHED", x, "RESPONDED">> :
        x \in {"SUCCEEDED", "FAILED_UNKNOWN", "FAILED_HANDLER"}}

\* C1: every POST /execute the server has finished handling went through
\* RECEIVED, PARSED, DISPATCHED, exactly one of SUCCEEDED / FAILED(unknown
\* action) / FAILED(handler error), and ended in RESPONDED with a response
\* written, whatever its body and whatever its handler did.
C1_ExecuteEndsResponded ==
    (Finished /\ IsExecute) => (trace \in DispatchPaths /\ wire # <<>>)

\* C2: once a handler has raised, whatever it raised, the server process
\* has not stopped because of it, and the finished request was answered
\* with one structured success:false response.
C2_HandlerFailureNeverStopsServer ==
    (raised # NoExc) =>
        /\ phase # "crashed"
        /\ Finished => (OneJsonResponse(wire, 200) /\ wire[2].data.success = FALSE)

\* C3: a POST /execute whose body is no valid JSON (the empty body included)
\* or lacks `action` runs no handler, raises nothing out of the request
\* handler, and is answered with one structured protocol-level error: a
\* JSON error body that is not an action-level result.
MalformedBody(b) ==
    b.kind = "notjson" \/ (b.kind = "object" /\ b.action = PyNoneAction)
C3_MalformedBodyIsProtocolError ==
    (Finished /\ IsExecute /\ MalformedBody(req.body)) =>
        /\ invoked = <<>>
        /\ escaped = "none"
        /\ Len(wire) = 2
        /\ wire[1].k = "status"
        /\ wire[2].k = "json" /\ "success" \notin DOMAIN wire[2].data

\* C4 as stated: whenever the handler of a registered action returned a
\* mapping M (or nothing), the response is success:true with output equal
\* to M (the empty mapping for nothing).
ExpectedOutput(m) == IF m = PyNone THEN EmptyDict ELSE m
SuccessWith(w, m) ==
    /\ OneJsonResponse(w, 200)
    /\ w[2].data.success = TRUE
    /\ w[2].data.output = ExpectedOutput(m)
C4_AnyMappingIsOutput ==
    (Finished /\ IsExecute /\ returned # <<>>) => SuccessWith(wire, returned[1])

\* C4 amended: whenever the handler of a registered action returned nothing
\* or a mapping M whose keys are strings and whose values JSON can encode,
\* the response is success:true with output equal to M (the empty mapping
\* for nothing).
IsJsonObject(m) ==
    /\ m.type = "dict"
    /\ \A i \in 1..Len(m.items) : m.items[i].key.t = "str" /\ m.items[i].val # "OBJ"
C4_JsonMappingIsOutput ==
    (Finished /\ IsExecute /\ returned # <<>>
        /\ (returned[1] = PyNone \/ IsJsonObject(returned[1])))
    => SuccessWith(wire, returned[1])
C4_Witness ==
    /\ Finished /\ IsExecute /\ returned # <<>>
    /\ IsJsonObject(returned[1]) /\ Len(returned[1].items) > 0
    /\ SuccessWith(wire, returned[1])

\* C5: whenever a handler raised, the finished request was answered with
\* success:false, error.code the exception's `code` ("EXECUTION_ERROR"
\* when it has none), error.message its description, the logs emitted
\* before it and the duration metric.
C5_FailureResponseShape ==
    (Finished /\ IsExecute /\ raised # NoExc) =>
        /\ OneJsonResponse(wire, 200)
        /\ wire[2].data.success = FALSE
        /\ wire[2].data.error.code =
              (IF raised.code = NoCode THEN "EXECUTION_ERROR" ELSE raised.code)
        /\ wire[2].data.error.message = raised.msg
        /\ "logs" \in DOMAIN wire[2].data
        /\ Len(wire[2].data.logs) = Len(emitted)
        /\ "metrics" \in DOMAIN wire[2].data


\* C6: a POST /execute naming an action id the registry does not hold when
\* the request is dispatched is answered, in that same step, with status
\* 200 and {success:false, error:{code:"UNKNOWN_ACTION", message:"Unknown
\* action: <id>"}} and nothing else (no logs, no metrics), and no handler
\* is invoked for it.
ExecuteStepFor(id) ==
    /\ pc = "idle"
    /\ pending' = pending - 1
    /\ req'.method = "POST" /\ req'.path = "/execute"
    /\ req'.body.kind = "object" /\ req'.body.action = PyStr(id)
LevelsAndMessages(logs) ==
    [i \in 1..Len(logs) |-> Call(logs[i].level, logs[i].message)]
C7_LogsAreEmissions ==
    (IsExecute /\ invoked # <<>>) =>
        \A i \in JsonBodies(wire) :
            /\ "logs" \in DOMAIN wire[i].data
            /\ LevelsAndMessages(wire[i].data.logs) = emitted
C7_Witness ==
    /\ Finished /\ IsExecute /\ invoked # <<>>
    /\ emitted = <<Call("info", "m2"), Call("debug", "m1")>>
    /\ OneJsonResponse(wire, 200)
    /\ wire[2].data.success = FALSE
    /\ LevelsAndMessages(wire[2].data.logs) = emitted

\* C8: every status line written for a POST /execute is 200, whether the
\* action succeeded, failed or was unknown; a status other than 200 is
\* written only for a request that is none of the four routes.
C8_ExecuteStatusIs200 ==
    /\ IsExecute => \A i \in Statuses(wire) : wire[i].status = 200
    /\ (\E i \in Statuses(wire) : wire[i].status # 200) => ~IsRoute(req)
C8_Witness ==
    /\ Finished /\ IsExecute
    /\ raised = Exc("Exception", "BAD_INPUT", "missing field")
    /\ OneJsonResponse(wire, 200)
    /\ wire[2].data.success = FALSE

\* C9: every finished request that is none of GET /health, GET /info,
\* POST /execute, POST /shutdown (a supported path with the wrong method
\* and a method other than GET and POST included) was answered with status
\* 404 and {"error": "Not found"}, and the server is still serving.
C9_UnknownRouteIs404 ==
    (Finished /\ ~IsRoute(req)) =>
        /\ wire = <<StatusLine(404), JsonBody([error |-> "Not found"])>>
        /\ phase \in {"serving", "exited"}

\* C10: what is written for one request is at most one status line and at
\* most one body, and a request that is answered at all gets exactly one
\* status line followed by one JSON object.
C10_ExactlyOneResponse ==
    /\ Cardinality(Statuses(wire)) <= 1
    /\ Cardinality(Bodies(wire)) <= 1
    /\ (IsExecute /\ wire # <<>>) => (Len(wire) = 2 /\ wire[2].k = "json")


\* What serve_forever() can do with a waiting connection: take it and
\* handle the request read from it.
Serves ==
    \/ \E path \in Paths : DoGET(path)
    \/ DoPOSTShutdown
    \/ \E path \in Paths : DoPOSTNotFound(path)
    \/ \E m \in Methods, path \in Paths : UnsupportedMethod(m, path)
    \/ \E body \in ExecuteBodies : Execute(body)

\* C11: while an /execute is inside its handler, be it for good, a request
\* waiting on another connection can be taken up and handled.
C11_OtherConnectionsServed ==
    (phase = "serving" /\ pc \in {"running", "hung"} /\ pending > 0)
        => ENABLED Serves


\* C12: in every state in which the plugin is serving, a GET /health that
\* has arrived can be answered, whatever the server is doing for other
\* requests, and every GET /health that was handled got status 200 and
\* status "healthy".
IsHealth == req = Request("GET", "/health", NoBody)
C12_HealthAlwaysAnswered ==
    /\ (phase = "serving" /\ pending > 0) => ENABLED DoGET("/health")
    /\ (Finished /\ IsHealth) =>
          (OneJsonResponse(wire, 200) /\ wire[2].data.status = "healthy")


\* C13: a timer is started only by a /shutdown whose response
\* {"status": "shutting_down"} is already written, and starting it does not
\* end the process; the process exits only through a started timer, so
\* after that response; and once a timer is started the process does exit.
IsShutdown == req = Request("POST", "/shutdown", NoBody)
ShutdownAcked ==
    wire = <<StatusLine(200), JsonBody([status |-> "shutting_down"])>>
C13_ShutdownAnswersThenExits ==
    /\ [][(timers' > timers) =>
            (IsShutdown /\ ShutdownAcked /\ wire' = wire /\ phase' = phase)]_vars
    /\ [][(phase' = "exited" /\ phase # "exited") => timers > 0]_vars
    /\ (timers > 0) ~> (phase = "exited")
C13_Witness ==
    /\ phase = "exited"
    /\ IsShutdown /\ ShutdownAcked /\ pc = "idle"


\* C14: whatever registrations were made before, in whatever order and
\* however often for one id, a GET /info is answered with a list of actions
\* in which every id registered so far occurs exactly once and no other id
\* occurs.
InfoStep ==
    /\ pc = "idle"
    /\ pending' = pending - 1
    /\ req' = Request("GET", "/info", NoBody)
Occurrences(seq, x) == Cardinality({i \in 1..Len(seq) : seq[i].id = x})
C14_InfoListsEachActionOnce ==
    [][InfoStep =>
         /\ OneJsonResponse(wire', 200)
         /\ \A a \in ActionIds :
               Occurrences(wire'[2].data.actions, a) =
                   (IF a \in registered THEN 1 ELSE 0)]_vars
C14_Witness ==
    /\ Finished /\ req = Request("GET", "/info", NoBody)
    /\ registered = {"a1", "a2"}
    /\ Keys(handlers) = <<"a2", "a1">>
    /\ OneJsonResponse(wire, 200)
    /\ Len(wire[2].data.actions) = 2
    /\ wire[2].data.actions[1].id = "a2"


\* C15: once the plugin is serving, no step adds, replaces or removes a
\* handler: the registry stays what it was when serving began.
C15_RegistryReadOnlyWhileServing ==
    [][(phase = "serving") => (handlers' = handlers)]_vars


\* C16: every call of a handler gets a context built from the body of its
\* own request and a logger that starts empty: while the handler runs and
\* once it has ended, the logger holds the records of this invocation alone,
\* and so do the logs of the response, whatever earlier invocations logged.
OwnRecords(logs) ==
    /\ Len(logs) = Len(emitted)
    /\ \A i \in 1..Len(logs) :
         logs[i].level = emitted[i].level /\ logs[i].message = emitted[i].message
C16_OwnContextAndLogSink ==
    (IsExecute /\ invoked # <<>>) =>
        /\ context = PluginContext(req.body.ctx)
        /\ OwnRecords(logger)
        /\ \A i \in JsonBodies(wire) : OwnRecords(wire[i].data.logs)
\* An invocation has ended with records in its logger, and the next
\* connection holds an /execute whose handler starts with none of them.
C16_Witness ==
    /\ Finished /\ IsExecute /\ invoked # <<>>
    /\ logger # <<>> /\ context.execution_id = "e1"
    /\ OneJsonResponse(wire, 200) /\ Len(wire[2].data.logs) = 2
    /\ ENABLED (/\ Execute([kind |-> "object", action |-> PyStr("a1"), ctx |-> Absent])
                /\ pc' = "running"
                /\ logger' = <<>>
                /\ context'.execution_id = "")


\* C17: the uptime_seconds of every /health response is at least 0 and at
\* least the uptime_seconds every earlier /health response carried,
\* whatever requests were served between them.
Uptime == wire[2].data.uptime_seconds
C17_UptimeNeverDecreases ==
    IsHealth =>
        /\ Uptime >= 0
        /\ \A i \in 1..Len(earlier_uptime) : Uptime >= earlier_uptime[i]
C17_Witness ==
    /\ Finished /\ IsHealth
    /\ earlier_uptime = <<0>>
    /\ Uptime = 1


\* C18: the plugin binds a server and begins to serve at most once, from
\* the state its construction left: a later call of start() serves nothing.
C18_StartServesAtMostOnce ==
    [][(phase' = "serving" /\ phase # "serving") => (phase = "constructed")]_vars


\* C19 as stated: every POST /execute that names an action of the registry
\* invokes a handler exactly once.
ExecuteStep ==
    /\ pc = "idle"
    /\ pending' = pending - 1
    /\ req'.method = "POST" /\ req'.path = "/execute"
NamesRegistered(b) == b.action.t = "str" /\ HasKey(handlers, b.action.v)
C19_RegisteredActionInvokedOnce ==
    [][(ExecuteStep /\ NamesRegistered(req'.body)) => Len(invoked') = 1]_vars
\* C19: a POST /execute whose body is a JSON object with a usable context
\* invokes the function registered under the named id, once, when the id is
\* in the registry, and nothing otherwise; a POST /execute whose body does
\* not parse invokes nothing; no other step adds an invocation, and a
\* request other than POST /execute has none.
C19_ParsedRequestInvokesOnce ==
    /\ [][ExecuteStep =>
            IF req'.body.kind = "object" /\ NamesRegistered(req'.body)
            THEN /\ Len(invoked') = 1
                 /\ \E i \in 1..Len(handlers) :
                       handlers[i] = <<req'.body.action.v, invoked'[1]>>
            ELSE invoked' = <<>>]_vars
    /\ [][(invoked' # invoked) => (ExecuteStep \/ invoked' = <<>>)]_vars
    /\ [](~IsExecute => invoked = <<>>)
C19_Witness ==
    /\ Finished /\ IsExecute
    /\ req.body.kind = "object" /\ req.body.action = PyStr("a2")
    /\ handlers = <<<<"a1", "f">>, <<"a2", "g">>>>
    /\ invoked = <<"g">>
    /\ returned # <<>>


\* C20: a /shutdown leaves nothing behind but its timer.  With timers
\* started, the idle server takes every request it took before, a further
\* /shutdown included; each /shutdown ends acknowledged with one timer more
\* and the earlier ones untouched; a started timer can fire whatever was
\* requested after it, the count of timers goes down by a firing alone, and
\* a firing ends the process.
C20_ShutdownKeepsNoState ==
    /\ [](Accepts =>
            /\ \A path \in Paths : ENABLED DoGET(path)
            /\ \A body \in ExecuteBodies : ENABLED Execute(body)
            /\ (timers < MaxTimers) => ENABLED DoPOSTShutdown)
    /\ [][(pc = "shutdown" /\ pc' = "idle") =>
            /\ timers' = timers + 1
            /\ wire' = <<StatusLine(200), JsonBody([status |-> "shutting_down"])>>
            /\ phase' = "serving"]_vars
    /\ []((timers > 0 /\ phase \in {"serving", "crashed"}) => ENABLED TimerFire)
    /\ [][(timers' < timers) => (timers' = timers - 1 /\ phase' = "exited")]_vars
C20_Witness ==
    /\ phase = "exited"
    /\ timers = 1
    /\ Finished /\ IsHealth
    /\ OneJsonResponse(wire, 200)

====
